---- MODULE Spec2Model ----
(***************************************************************************)
(* Model of app.py, a Streamlit expense tracker that keeps its data in a   *)
(* Google spreadsheet through gspread.                                     *)
(*                                                                         *)
(* The state is the store (the two worksheets "Expenses" and "Categories") *)
(* and Streamlit's session state (confirm_clear, confirm_delete).  Every   *)
(* user interaction re-runs the whole script; one action of the model is   *)
(* one such run: the module-level startup, the loads, and the handler of   *)
(* the widget that was clicked.  Every gspread call of a run may raise;    *)
(* the set F of an action names the call sites that raise in that run.     *)
(*                                                                         *)
(* A worksheet is the sequence of its rows up to the last non-empty one.   *)
(* A cell and a Python value share one representation: <<"s", text>> for a *)
(* string, <<"n", k>> for a number, PyNone for None.  Amounts are counted  *)
(* in cents, dates are day ordinals.                                       *)
(*                                                                         *)
(* Two more variables record what a run computed.  page is the summary     *)
(* metrics and the filtered dataframe of "Main content"; only the runs of  *)
(* SpecMetrics compute it.  armed is a history variable: whether the       *)
(* record that the last click on "Delete This Transaction" armed is still  *)
(* the record at the index that confirm_delete holds.                      *)
(***************************************************************************)
EXTENDS Integers, Sequences, FiniteSets, TLC

VARIABLES expenses_worksheet, categories_worksheet, confirm_clear, confirm_delete, last,
          page, armed

vars == <<expenses_worksheet, categories_worksheet, confirm_clear, confirm_delete, last,
          page, armed>>

(* ------------------------------ bounds -------------------------------- *)

\* Most expense rows the Expenses sheet may hold before Add Expense stops.
MaxExpenses == 2

\* Most records of a ledger snapshot whose summary metrics are computed.
MaxSnapshot == 3

\* Most rows of the Categories sheet that may hold one of the names the user
\* types before Add Category stops; the seeded sheet has two of them, its
\* header and "Travel".
MaxTyped == 4

(* ------------------------------ values -------------------------------- *)

S(t) == <<"s", t>>

N(k) == <<"n", k>>

PyNone == <<"none", 0>>

\* session_state.get('confirm_delete') before any click, and after a delete.
None == -1

Range(f) == {f[i] : i \in DOMAIN f}

\* The '%Y-%m-%d' text of the dates the user enters; a date is its ordinal here.
DateText == <<"2024-01-01", "2024-01-02", "2024-01-03">>

Dates == DOMAIN DateText

\* date.strftime('%Y-%m-%d')
strftime(d) == DateText[d]

\* What the user enters in an expense form: a date, an amount in cents
\* (number_input, min_value 0.01) and a description (text_input).
ExpenseInputs ==
  { [date |-> 1, amount |-> 1000, description |-> "lunch"],
    [date |-> 2, amount |-> 250, description |-> "007"] }

\* The texts the user types as a new category name.
NewCategories == {"Travel", "Category", "007"}

\* The labels, as the page shows them, that the user picks for deletion.
DeleteLabels == {"Travel", "Other", "Category", "7"}

\* Python's int(text) on the texts of the model: the texts it accepts.
IntLiteral == "007" :> 7

(* ------------------------- gspread worksheet -------------------------- *)

\* worksheet.append_row(row): after the last row of the table.
append_row(rows, row) == Append(rows, row)

\* worksheet.update('A{r}:D{r}', [row]): cell by cell, a None value leaves
\* the cell as it is.  Only rows 1 .. Len(rows)+1 are written by the program.
update(rows, r, row) ==
  LET merged == [i \in DOMAIN row |->
                   IF row[i] = PyNone /\ r <= Len(rows) THEN rows[r][i] ELSE row[i]]
  IN IF r <= Len(rows) THEN [rows EXCEPT ![r] = merged] ELSE Append(rows, merged)

\* worksheet.delete_rows(r): the rows below move up by one.
delete_rows(rows, r) ==
  IF r \in 1..Len(rows)
    THEN [i \in 1..(Len(rows) - 1) |-> IF i < r THEN rows[i] ELSE rows[i + 1]]
    ELSE rows

\* A clear() that empties nothing.
clear_keeps_rows(rows) == rows

\* worksheet.clear(): every cell is emptied.
clear(rows) == << >>

\* gspread's numericise of one cell of get_all_records: text that int()
\* accepts comes back as a number.
numericise(cell) ==
  IF cell[1] = "s" /\ cell[2] \in DOMAIN IntLiteral THEN N(IntLiteral[cell[2]]) ELSE cell

\* worksheet.get_all_records(): row 1 gives the keys, every later row one record.
get_all_records(rows) ==
  IF Len(rows) < 2 THEN << >>
  ELSE [i \in 1..(Len(rows) - 1) |->
          [keys |-> rows[1],
           vals |-> [j \in DOMAIN rows[i + 1] |-> numericise(rows[i + 1][j])]]]

\* str(value), as an f-string or a gspread query sees it.
Str(v) == IF v[1] = "n" THEN ToString(v[2]) ELSE v[2]

\* worksheet.find(query) for a str query: the row of the first cell, the
\* header row included, whose text is the query; 0 for None.
find(rows, query) ==
  LET hits == {i \in 1..Len(rows) : \E j \in DOMAIN rows[i] : Str(rows[i][j]) = query}
  IN IF hits = {} THEN 0 ELSE CHOOSE i \in hits : \A k \in hits : i <= k

(* --------------------------- the functions ---------------------------- *)

Header == <<S("Date"), S("Amount"), S("Category"), S("Description")>>

CategoryHeader == <<S("Category")>>

default_categories ==
  << "Food & Dining", "Transportation", "Shopping", "Entertainment",
     "Bills & Utilities", "Healthcare", "Education", "Travel", "Groceries", "Other" >>

\* A worksheet that does not exist yet.
Absent == [exists |-> FALSE, rows |-> << >>]

Sheet(rows) == [exists |-> TRUE, rows |-> rows]

\* get_expenses_worksheet: only WorksheetNotFound is caught; any other
\* failure of the three calls leaves the function as an exception.
get_expenses_worksheet(ws, F) ==
  IF "worksheet_exp" \in F THEN [ws |-> ws, raised |-> TRUE]
  ELSE IF ws.exists THEN [ws |-> ws, raised |-> FALSE]
  ELSE IF "add_worksheet_exp" \in F THEN [ws |-> ws, raised |-> TRUE]
  ELSE IF "update_header_exp" \in F THEN [ws |-> Sheet(<< >>), raised |-> TRUE]
  ELSE [ws |-> Sheet(update(<< >>, 1, Header)), raised |-> FALSE]

\* worksheet.append_rows(default_categories)
SeedRows(rows) == rows \o [i \in DOMAIN default_categories |-> <<S(default_categories[i])>>]

\* get_categories_worksheet: as above, with the ten default categories.
get_categories_worksheet(ws, F) ==
  IF "worksheet_cat" \in F THEN [ws |-> ws, raised |-> TRUE]
  ELSE IF ws.exists THEN [ws |-> ws, raised |-> FALSE]
  ELSE IF "add_worksheet_cat" \in F THEN [ws |-> ws, raised |-> TRUE]
  ELSE IF "update_header_cat" \in F THEN [ws |-> Sheet(<< >>), raised |-> TRUE]
  ELSE IF "append_rows_cat" \in F THEN [ws |-> Sheet(update(<< >>, 1, CategoryHeader)), raised |-> TRUE]
  ELSE [ws |-> Sheet(SeedRows(update(<< >>, 1, CategoryHeader))), raised |-> FALSE]

\* The value of record rec under key name; HasKey says whether rec[name] raises KeyError.
HasKey(rec, name) == \E j \in DOMAIN rec.keys : rec.keys[j] = S(name)

Get(rec, name) ==
  LET js == {j \in DOMAIN rec.keys : rec.keys[j] = S(name)}
  IN rec.vals[CHOOSE j \in js : \A k \in js : k <= j]

\* load_categories: the list of labels, [] when anything raises.
load_categories(rows, F) ==
  LET data == get_all_records(rows)
  IN IF "get_all_records_cat" \in F THEN << >>
     ELSE IF \E i \in DOMAIN data : ~HasKey(data[i], "Category") THEN << >>
     ELSE [i \in DOMAIN data |-> Get(data[i], "Category")]

\* add_category
add_category(rows, category, F) ==
  IF "append_row_cat" \in F THEN [rows |-> rows, ok |-> FALSE]
  ELSE [rows |-> append_row(rows, <<S(category)>>), ok |-> TRUE]

\* delete_category: worksheet.find raises on a query that is no str (a
\* label that get_all_records turned into a number).
delete_category(rows, category, F) ==
  LET r == find(rows, category[2])
  IN IF "find_cat" \in F \/ category[1] # "s" THEN [rows |-> rows, ok |-> FALSE]
     ELSE IF r = 0 THEN [rows |-> rows, ok |-> FALSE]
     ELSE IF "delete_rows_cat" \in F THEN [rows |-> rows, ok |-> FALSE]
     ELSE [rows |-> delete_rows(rows, r), ok |-> TRUE]

\* pd.to_datetime of one value: the date whose text it is; CanDatetime says
\* whether it parses.
CanDatetime(v) == v[1] = "s" /\ \E d \in Dates : strftime(d) = v[2]

to_datetime(v) == CHOOSE d \in Dates : strftime(d) = v[2]

\* pd.to_numeric of one value: numbers only.
CanNumeric(v) == v[1] = "n"

to_numeric(v) == v[2]

\* load_expenses: the dataframe as the sequence of its rows (index i-1 at
\* place i), RowNum 2, 3, ...; empty when the sheet has no data row or anything
\* raises (a missing 'Date' or 'Amount' key, a value that does not convert).
\* A first row without 'Category' or 'Description' is counted with these: with
\* the texts of the model such a row never holds 'Date' and 'Amount' either.
load_expenses(rows, F) ==
  LET data == get_all_records(rows)
      bad(rec) == \/ ~HasKey(rec, "Date") \/ ~HasKey(rec, "Amount")
                  \/ ~HasKey(rec, "Category") \/ ~HasKey(rec, "Description")
                  \/ ~CanDatetime(Get(rec, "Date"))
                  \/ ~CanNumeric(Get(rec, "Amount"))
  IN IF "get_all_records_exp" \in F THEN << >>
     ELSE IF \E i \in DOMAIN data : bad(data[i]) THEN << >>
     ELSE [i \in DOMAIN data |->
             [date |-> to_datetime(Get(data[i], "Date")),
              amount |-> to_numeric(Get(data[i], "Amount")),
              category |-> Get(data[i], "Category"),
              description |-> Get(data[i], "Description"),
              row_num |-> i + 1]]

\* The row add_expense and update_expense write.
ExpenseRow(date, amount, category, description) ==
  <<S(strftime(date)), N(amount), category, S(description)>>

\* add_expense
add_expense(rows, date, amount, category, description, F) ==
  IF "append_row_exp" \in F THEN [rows |-> rows, ok |-> FALSE]
  ELSE [rows |-> append_row(rows, ExpenseRow(date, amount, category, description)), ok |-> TRUE]

\* update_expense
update_expense(rows, row_num, date, amount, category, description, F) ==
  IF "update_exp" \in F THEN [rows |-> rows, ok |-> FALSE]
  ELSE [rows |-> update(rows, row_num, ExpenseRow(date, amount, category, description)), ok |-> TRUE]

\* A delete_expense that forgets the header row when it turns the record's
\* place into a sheet row.
delete_expense_off_by_one(rows, row_num, F) ==
  IF "delete_rows_exp" \in F THEN [rows |-> rows, ok |-> FALSE]
  ELSE [rows |-> delete_rows(rows, row_num - 1), ok |-> TRUE]

\* delete_expense
delete_expense(rows, row_num, F) ==
  IF "delete_rows_exp" \in F THEN [rows |-> rows, ok |-> FALSE]
  ELSE [rows |-> delete_rows(rows, row_num), ok |-> TRUE]

\* clear_all_expenses: worksheet.clear(), then the header is written again.
clear_all_expenses(rows, F) ==
  IF "clear_exp" \in F THEN [rows |-> rows, ok |-> FALSE]
  ELSE IF "update_header_clear" \in F THEN [rows |-> clear(rows), ok |-> FALSE]
  ELSE [rows |-> update(clear(rows), 1, Header), ok |-> TRUE]

(* ----------------------------- the script ----------------------------- *)

Input(date, amount, category, description) ==
  [date |-> date, amount |-> amount, category |-> category, description |-> description]

NoInput == [date |-> 0, amount |-> 0, category |-> PyNone, description |-> ""]

\* What the last run did: the widget clicked (op), how the run ended
\* (outcome), and what the function was given when it returned True.
\*   "ok"        the function returned True
\*   "failed"    the function returned False (an error was reported)
\*   "uncaught"  an exception left the script
\*   "duplicate" the category was refused as a duplicate
\*   "armed"     the click armed a confirmation
\*   "none"      the clicked widget was not rendered in the run
Did(op, outcome, row, input, label) ==
  [op |-> op, outcome |-> outcome, row |-> row, input |-> input, label |-> label]

\* Nothing of "Main content" computed.
NoPage == [shown |-> FALSE]

Init ==
  /\ expenses_worksheet = Absent
  /\ categories_worksheet = Absent
  /\ confirm_clear = FALSE
  /\ confirm_delete = None
  /\ last = Did("init", "ok", 0, NoInput, "")
  /\ page = NoPage
  /\ armed = FALSE

StartupSites ==
  { "worksheet_exp", "add_worksheet_exp", "update_header_exp",
    "worksheet_cat", "add_worksheet_cat", "update_header_cat", "append_rows_cat" }

\* Lines 222-223 of a run: the two worksheets after them, and whether an
\* exception left the script there.
Startup(F) ==
  LET e == get_expenses_worksheet(expenses_worksheet, F)
      c == get_categories_worksheet(categories_worksheet, F)
  IN IF e.raised THEN [exp |-> e.ws, cat |-> categories_worksheet, raised |-> TRUE]
     ELSE [exp |-> e.ws, cat |-> c.ws, raised |-> c.raised]

\* A widget can only be clicked on a page that a run rendered, and a run
\* renders widgets only after both worksheets exist.
Rendered == expenses_worksheet.exists /\ categories_worksheet.exists

\* The calls that raise in one run.  The script ends at the first startup
\* call that raises, so one startup site a run gives every outcome; the
\* calls whose exceptions are caught raise in any combination.
Failures(startup, caught) == {{s} : s \in startup} \cup SUBSET caught

Lookups == {"worksheet_exp", "worksheet_cat"}

\* The rows of the Expenses sheet other than the header.
ExpenseCount == Cardinality({i \in DOMAIN expenses_worksheet.rows : expenses_worksheet.rows[i] # Header})

\* A run without a click: the first page load, st.rerun(), a reload.
Render ==
  \E F \in Failures(StartupSites, {}) :
    LET s == Startup(F)
    IN /\ expenses_worksheet' = s.exp
       /\ categories_worksheet' = s.cat
       /\ last' = Did("render", IF s.raised THEN "uncaught" ELSE "ok", 0, NoInput, "")
       /\ UNCHANGED <<confirm_clear, confirm_delete>>

\* The run of a click ends in the startup, which raised: the click is lost.
Lost ==
  /\ last' = Did("click", "uncaught", 0, NoInput, "")
  /\ UNCHANGED <<expenses_worksheet, categories_worksheet, confirm_clear, confirm_delete>>

\* The run of a click does not reach the clicked widget: the list it stands
\* under is empty (df at line 288, categories at line 265).
NotRendered ==
  /\ last' = Did("click", "none", 0, NoInput, "")
  /\ UNCHANGED <<expenses_worksheet, categories_worksheet, confirm_clear, confirm_delete>>

\* The places of the option lists the user picks a category from.
CategoryPicks == {1}

Picked(options) == {options[i] : i \in CategoryPicks \cap DOMAIN options}

\* expense_form, "Add Expense" (lines 232-245).
AddExpense ==
  \E inp \in ExpenseInputs :
  \E F \in Failures(Lookups, {"get_all_records_cat", "append_row_exp"}) :
  \E categories \in {load_categories(categories_worksheet.rows, F)} :
    LET options == IF categories # << >> THEN categories ELSE <<S("Other")>>
    IN /\ Rendered
       /\ ExpenseCount < MaxExpenses
       /\ IF Startup(F).raised THEN Lost
          ELSE \E category \in Picked(options) :
               \E r \in {add_expense(expenses_worksheet.rows, inp.date, inp.amount,
                                     category, inp.description, F)} :
            /\ expenses_worksheet' = Sheet(r.rows)
            /\ last' = IF r.ok
                         THEN Did("add_expense", "ok", 0,
                                  Input(inp.date, inp.amount, category, inp.description), "")
                         ELSE Did("add_expense", "failed", 0, NoInput, "")
            /\ UNCHANGED <<categories_worksheet, confirm_clear, confirm_delete>>

\* The text of one option of transaction_selector (line 436).
display_text(row) ==
  <<strftime(row.date), row.amount, Str(row.category), Str(row.description)>>

\* selected_idx (line 447) when the user picked the option of df[k]: the
\* first option of sorted_df with that text.  sort_values uses quicksort,
\* which orders equal dates in no specified way, so any row with that text
\* may be the first.  The value is the place in df, that is the index + 1.
SelectedIdx(df, k) == {i \in DOMAIN df : display_text(df[i]) = display_text(df[k])}

\* The categories the user may leave the edit form with: the form's default
\* (line 457) or a pick; None when the list is empty.
EditCategories(categories, current) ==
  IF categories = << >> THEN {PyNone}
  ELSE Picked(categories) \cup ({current} \cap Range(categories))

\* edit_form, "Save Changes" (lines 454-467).
SaveChanges ==
  \E inp \in ExpenseInputs :
  \E F \in Failures(Lookups, {"get_all_records_cat", "get_all_records_exp", "update_exp"}) :
  \E categories \in {load_categories(categories_worksheet.rows, F)} :
  \E df \in {load_expenses(expenses_worksheet.rows, F)} :
    /\ Rendered
    /\ IF Startup(F).raised THEN Lost
       ELSE IF df = << >> THEN NotRendered
       ELSE \E k \in DOMAIN df : \E i \in SelectedIdx(df, k) :
            \E category \in EditCategories(categories, df[i].category) :
            \E r \in {update_expense(expenses_worksheet.rows, df[i].row_num, inp.date,
                                     inp.amount, category, inp.description, F)} :
         /\ expenses_worksheet' = Sheet(r.rows)
         /\ last' = IF r.ok
                      THEN Did("update_expense", "ok", df[i].row_num,
                               Input(inp.date, inp.amount, category, inp.description), "")
                      ELSE Did("update_expense", "failed", 0, NoInput, "")
         /\ UNCHANGED <<categories_worksheet, confirm_clear, confirm_delete>>

\* "Delete This Transaction" (lines 473-483).
DeleteThisTransaction ==
  \E F \in Failures(Lookups, {"get_all_records_exp", "delete_rows_exp"}) :
  \E df \in {load_expenses(expenses_worksheet.rows, F)} :
    /\ Rendered
    /\ IF Startup(F).raised THEN Lost
       ELSE IF df = << >> THEN NotRendered
       ELSE \E k \in DOMAIN df : \E i \in SelectedIdx(df, k) :
            \E r \in {delete_expense(expenses_worksheet.rows, df[i].row_num, F)} :
         LET selected_idx == i - 1
         IN IF confirm_delete = selected_idx
              THEN /\ expenses_worksheet' = Sheet(r.rows)
                   /\ confirm_delete' = IF r.ok THEN None ELSE confirm_delete
                   /\ last' = IF r.ok
                                THEN Did("delete_expense", "ok", df[i].row_num, NoInput, "")
                                ELSE Did("delete_expense", "failed", 0, NoInput, "")
                   /\ UNCHANGED <<categories_worksheet, confirm_clear>>
              ELSE /\ confirm_delete' = selected_idx
                   /\ last' = Did("delete_expense", "armed", df[i].row_num, NoInput, "")
                   /\ UNCHANGED <<expenses_worksheet, categories_worksheet, confirm_clear>>

\* A handler that clears on the first click.
ClearAlwaysConfirmed == TRUE

\* st.session_state.get('confirm_clear', False) (line 517)
ClearConfirmed == confirm_clear

\* "Clear All Data" (lines 516-526).
ClearAllData ==
  \E F \in Failures(Lookups, {"get_all_records_exp", "clear_exp", "update_header_clear"}) :
  \E df \in {load_expenses(expenses_worksheet.rows, F)} :
  \E r \in {clear_all_expenses(expenses_worksheet.rows, F)} :
    /\ Rendered
    /\ IF Startup(F).raised THEN Lost
       ELSE IF df = << >> THEN NotRendered
       ELSE IF ClearConfirmed
         THEN /\ expenses_worksheet' = Sheet(r.rows)
              /\ confirm_clear' = IF r.ok THEN FALSE ELSE confirm_clear
              /\ last' = Did("clear_all", IF r.ok THEN "ok" ELSE "failed", 0, NoInput, "")
              /\ UNCHANGED <<categories_worksheet, confirm_delete>>
         ELSE /\ confirm_clear' = TRUE
              /\ last' = Did("clear_all", "armed", 0, NoInput, "")
              /\ UNCHANGED <<expenses_worksheet, categories_worksheet, confirm_delete>>

\* "Cancel" (lines 528-530), on the page only while confirm_clear is set.
Cancel ==
  \E F \in Failures(Lookups, {"get_all_records_exp"}) :
  \E df \in {load_expenses(expenses_worksheet.rows, F)} :
    /\ Rendered
    /\ confirm_clear
    /\ IF Startup(F).raised THEN Lost
       ELSE IF df = << >> THEN NotRendered
       ELSE /\ confirm_clear' = FALSE
            /\ last' = Did("cancel", "ok", 0, NoInput, "")
            /\ UNCHANGED <<expenses_worksheet, categories_worksheet, confirm_delete>>

\* The rows of the Categories sheet that hold a name of NewCategories.
TypedRows ==
  Cardinality({i \in DOMAIN categories_worksheet.rows :
                 Str(categories_worksheet.rows[i][1]) \in NewCategories})

\* add_category_form, "Add Category" (lines 253-262).
AddCategory ==
  \E new_category \in NewCategories :
  \E F \in Failures(Lookups, {"get_all_records_cat", "append_row_cat"}) :
  \E categories \in {load_categories(categories_worksheet.rows, F)} :
  \E r \in {add_category(categories_worksheet.rows, new_category, F)} :
    /\ Rendered
    /\ TypedRows < MaxTyped
    /\ IF Startup(F).raised THEN Lost
       ELSE IF S(new_category) \in Range(categories)
         THEN /\ last' = Did("add_category", "duplicate", 0, NoInput, new_category)
              /\ UNCHANGED <<expenses_worksheet, categories_worksheet, confirm_clear, confirm_delete>>
         ELSE /\ categories_worksheet' = Sheet(r.rows)
              /\ last' = Did("add_category", IF r.ok THEN "ok" ELSE "failed", 0, NoInput, new_category)
              /\ UNCHANGED <<expenses_worksheet, confirm_clear, confirm_delete>>

\* delete_category_form, "Delete Category" (lines 265-273); the form is on
\* the page only when categories is not empty.
DeleteCategory ==
  \E F \in Failures(Lookups, {"get_all_records_cat", "find_cat", "delete_rows_cat"}) :
  \E categories \in {load_categories(categories_worksheet.rows, F)} :
    /\ Rendered
    /\ IF Startup(F).raised THEN Lost
       ELSE IF categories = << >> THEN NotRendered
       ELSE \E cat_to_delete \in {c \in Range(categories) : Str(c) \in DeleteLabels} :
            \E r \in {delete_category(categories_worksheet.rows, cat_to_delete, F)} :
         /\ categories_worksheet' = Sheet(r.rows)
         /\ last' = Did("delete_category", IF r.ok THEN "ok" ELSE "failed", 0, NoInput,
                        Str(cat_to_delete))
         /\ UNCHANGED <<expenses_worksheet, confirm_clear, confirm_delete>>

\* The history of the armed record after a run.  A click that arms makes the
\* record at the armed index the armed one.  It stays so while the index is
\* kept and the record is in the sheet: a row appended after it or an edit of
\* it leaves it there, worksheet.clear() removes it.  (A delete that succeeds
\* resets confirm_delete.)
Tracked ==
  /\ page' = page
  /\ armed' = IF last'.op = "delete_expense" /\ last'.outcome = "armed" THEN TRUE
              ELSE IF confirm_delete' = None THEN FALSE
              ELSE IF last'.op = "clear_all" /\ expenses_worksheet' # expenses_worksheet THEN FALSE
              ELSE armed

Next ==
  \/ Render /\ Tracked
  \/ AddExpense /\ Tracked
  \/ SaveChanges /\ Tracked
  \/ DeleteThisTransaction /\ Tracked
  \/ ClearAllData /\ Tracked
  \/ Cancel /\ Tracked

Spec == Init /\ [][Next]_vars

\* The category registry alone: the runs that click in "Manage Categories".
NextCategories ==
  \/ Render /\ Tracked
  \/ AddCategory /\ Tracked
  \/ DeleteCategory /\ Tracked

SpecCategories == Init /\ [][NextCategories]_vars

(* ------------------- summary metrics and filters ---------------------- *)

\* Series.sum()
sum(s) ==
  LET acc[i \in 0..Len(s)] == IF i = 0 THEN 0 ELSE acc[i - 1] + s[i]
  IN acc[Len(s)]

\* f"${x:,.2f}" of the float num / den: the nearest cent, a tie to the even
\* one (the amounts of the model and their sums are exact in binary).
format_cents(num, den) ==
  LET q == num \div den
      r == num % den
  IN IF 2 * r < den THEN q
     ELSE IF 2 * r > den THEN q + 1
     ELSE IF q % 2 = 0 THEN q ELSE q + 1

Amounts(df) == [i \in DOMAIN df |-> df[i].amount]

\* Series.idxmax(): the first place of the greatest value.
idxmax(s) ==
  CHOOSE i \in DOMAIN s : /\ \A j \in DOMAIN s : s[j] <= s[i]
                          /\ \A j \in DOMAIN s : j < i => s[j] < s[i]

\* The summary metrics, had "Highest Expense" read idxmin.
summary_metrics_idxmin(df) ==
  [total |-> sum(Amounts(df)),
   count |-> Len(df),
   average |-> format_cents(sum(Amounts(df)), Len(df)),
   max |-> LET s == Amounts(df)
               idxmin == CHOOSE i \in DOMAIN s :
                           \A j \in DOMAIN s : s[j] >= s[i] /\ (j < i => s[j] > s[i])
           IN df[idxmin].amount]

\* "Summary metrics" (lines 294-308), of a dataframe that is not empty: Total
\* Expenses, Number of Transactions, Average Transaction, Highest Expense, as
\* the four st.metric show them.
summary_metrics(df) ==
  [total |-> sum(Amounts(df)),
   count |-> Len(df),
   average |-> format_cents(sum(Amounts(df)), Len(df)),
   max |-> df[idxmax(Amounts(df))].amount]

\* "Apply filters" (lines 335-341)
filtered_df(df, date_range, selected_categories, min_amount) ==
  LET keep(r) == /\ r.date >= date_range[1]
                 /\ r.date <= date_range[2]
                 /\ r.category \in selected_categories
                 /\ r.amount >= min_amount
  IN SelectSeq(df, keep)

\* The records of the ledgers whose metrics are computed.
SnapshotRows ==
  { ExpenseRow(1, 1000, S("Food"), "lunch"),
    ExpenseRow(2, 2000, S("Transport"), "bus"),
    ExpenseRow(3, 500, S("Food"), "snack") }

Snapshots == UNION {[1..n -> SnapshotRows] : n \in 0..MaxSnapshot}

\* What the user sets in the three filter widgets (lines 315-333).
DateRanges == {d \in Dates \X Dates : d[1] <= d[2]}

available_categories(df) == {df[i].category : i \in DOMAIN df}

MinAmounts == {0, 500, 1500}

\* A store that holds a ledger, and a session that has not clicked yet.
InitMetrics ==
  /\ expenses_worksheet \in {Sheet(<<Header>> \o rows) : rows \in Snapshots}
  /\ categories_worksheet = Sheet(SeedRows(<<CategoryHeader>>))
  /\ confirm_clear = FALSE
  /\ confirm_delete = None
  /\ last = Did("init", "ok", 0, NoInput, "")
  /\ page = NoPage
  /\ armed = FALSE

\* A run of "Main content" with the filter widgets set (lines 285-341).
ApplyFilters ==
  \E df \in {load_expenses(expenses_worksheet.rows, {})} :
  \E date_range \in DateRanges :
  \E selected_categories \in SUBSET available_categories(df) :
  \E min_amount \in MinAmounts :
    /\ df # << >>
    /\ page' = [shown |-> TRUE,
                date_range |-> date_range,
                selected_categories |-> selected_categories,
                min_amount |-> min_amount,
                metrics |-> summary_metrics(df),
                filtered_df |-> filtered_df(df, date_range, selected_categories, min_amount)]
    /\ last' = Did("render", "ok", 0, NoInput, "")
    /\ UNCHANGED <<expenses_worksheet, categories_worksheet, confirm_clear, confirm_delete, armed>>

NextMetrics ==
  \/ ApplyFilters

SpecMetrics == InitMetrics /\ [][NextMetrics]_vars

(* --------------------------- the properties --------------------------- *)

\* list of the Expense Ledger: load_expenses when no call raises.
ledger == load_expenses(expenses_worksheet.rows, {})

\* list of the Category Registry: load_categories when no call raises.
registry == load_categories(categories_worksheet.rows, {})

\* The record list shows for the fields of input at position pos.
Carrying(input, pos) ==
  [date |-> input.date, amount |-> input.amount, category |-> input.category,
   description |-> S(input.description), row_num |-> pos]

Ran(op, outcome) == last.op = op /\ last.outcome = outcome

\* C1: a create that returned True, followed by list, gives the previous
\* records unchanged plus one record carrying the fields given, at the prior
\* maximum position + 1 (2 on an empty ledger).
C1_CreateThenList ==
  [][Ran("add_expense", "ok")' =>
       ledger' = Append(ledger, Carrying(last'.input, Len(ledger) + 2))]_vars

\* C2: a delete(p) that returned True, followed by list, removes the record
\* that was at p, leaves every record at a smaller position as it was, and
\* moves every record at a greater position up by one, fields unchanged.
C2_DeleteThenList ==
  [][Ran("delete_expense", "ok")' =>
       LET p == last'.row
       IN /\ \E i \in DOMAIN ledger : ledger[i].row_num = p
          /\ Len(ledger') = Len(ledger) - 1
          /\ \A i \in DOMAIN ledger :
               /\ ledger[i].row_num < p => ledger'[i] = ledger[i]
               /\ ledger[i].row_num > p =>
                    ledger'[i - 1] = [ledger[i] EXCEPT !.row_num = ledger[i].row_num - 1]]_vars

C2_Witness ==
  /\ Ran("delete_expense", "ok")
  /\ last.row = 2
  /\ Len(ledger) = 1

\* C3: an update(p, ...) that returned True, followed by list, shows the new
\* field values at p, the same number of records, and every other position
\* as it was.
C3_UpdateThenList ==
  [][(Ran("update_expense", "ok")' /\ last'.input.category # PyNone) =>
       /\ Len(ledger') = Len(ledger)
       /\ \A i \in DOMAIN ledger :
            ledger'[i] = IF ledger[i].row_num = last'.row
                           THEN Carrying(last'.input, last'.row)
                           ELSE ledger[i]]_vars

\* C4: after a clear() that returned True the Expenses sheet holds the header
\* row alone and list is empty.
C4_ClearThenList ==
  Ran("clear_all", "ok") => expenses_worksheet.rows = <<Header>> /\ ledger = << >>

C4_Witness == Ran("clear_all", "ok") /\ Len(expenses_worksheet.rows) = 1

\* C5: a mutating operation that reports failure leaves both sheets as they
\* were before it started.
C5_FailureIsNoOp ==
  [][last'.outcome = "failed" =>
       /\ expenses_worksheet' = expenses_worksheet
       /\ categories_worksheet' = categories_worksheet]_vars

\* C6: once the Expenses sheet exists its first row is the header, so every
\* data row is at row 2 or below.
C6_HeaderFirst ==
  expenses_worksheet.exists =>
    /\ Len(expenses_worksheet.rows) >= 1
    /\ expenses_worksheet.rows[1] = Header

\* First occurrence of x removed from the sequence xs.
RemoveFirst(xs, x) ==
  LET hits == {i \in DOMAIN xs : xs[i] = x}
      at == CHOOSE i \in hits : \A k \in hits : i <= k
  IN IF hits = {} THEN xs
     ELSE [i \in 1..(Len(xs) - 1) |-> IF i < at THEN xs[i] ELSE xs[i + 1]]

\* C7: remove(label) fails and changes nothing when no category row holds
\* the label; a remove that returned True has deleted the first category row
\* holding it, so list is the previous list without that one occurrence.
C7_RemoveThenList ==
  [][/\ (last'.op = "delete_category" /\ S(last'.label) \notin Range(registry)) =>
          last'.outcome = "failed" /\ categories_worksheet' = categories_worksheet
     /\ Ran("delete_category", "ok")' =>
          registry' = RemoveFirst(registry, S(last'.label))]_vars

\* C8: no label occurs twice in the registry.
C8_NoDuplicateLabel ==
  \A i, j \in DOMAIN registry : registry[i] = registry[j] => i = j

\* C9: no failure of a store call leaves the script as an uncaught exception.
C9_NoUncaughtFault == last.outcome # "uncaught"

\* C10: a handled click on "Clear All Data" while the confirmation is not
\* armed arms it and leaves the sheet alone; clear_all_expenses runs only on
\* a click made while armed; Cancel and a clear that returned True disarm.
C10_TwoStepClear ==
  [][/\ (last'.op = "clear_all" /\ ~confirm_clear) =>
          /\ last'.outcome = "armed"
          /\ confirm_clear'
          /\ expenses_worksheet' = expenses_worksheet
     /\ (last'.op = "clear_all" /\ last'.outcome \in {"ok", "failed"}) => confirm_clear
     /\ (Ran("clear_all", "ok")' \/ Ran("cancel", "ok")') => ~confirm_clear'
     /\ Ran("cancel", "ok")' => expenses_worksheet' = expenses_worksheet]_vars

C10_Witness == Ran("clear_all", "armed") /\ confirm_clear /\ ledger # << >>

\* The number of records of df that equal r but for their place.
Copies(df, r) ==
  Cardinality({i \in DOMAIN df : [df[i] EXCEPT !.row_num = 0] = [r EXCEPT !.row_num = 0]})

\* The sum of the amounts of df, amount by amount.
TotalOf(df) ==
  LET Occ(a) == Cardinality({i \in DOMAIN df : df[i].amount = a})
      part[A \in SUBSET Range(Amounts(df))] ==
        IF A = {} THEN 0
        ELSE LET a == CHOOSE x \in A : \A y \in A : x <= y
             IN a * Occ(a) + part[A \ {a}]
  IN part[Range(Amounts(df))]

\* metrics are the total, count, average (to the nearest cent, 0 of no
\* record) and maximum of the amounts of the records of df.
MetricsOver(metrics, df) ==
  /\ metrics.total = TotalOf(df)
  /\ metrics.count = Len(df)
  /\ df = << >> => metrics.average = 0
  /\ df # << >> =>
       /\ LET d == metrics.average * Len(df) - metrics.total
              e == IF d < 0 THEN -d ELSE d
          IN 2 * e <= Len(df) /\ (2 * e = Len(df) => metrics.average % 2 = 0)
       /\ \E i \in DOMAIN df : df[i].amount = metrics.max
       /\ \A i \in DOMAIN df : df[i].amount <= metrics.max

\* The record satisfies the three criteria of the filter of the page.
Satisfies(r) ==
  /\ page.date_range[1] <= r.date /\ r.date <= page.date_range[2]
  /\ r.category \in page.selected_categories
  /\ page.min_amount <= r.amount

\* The records of the ledger that satisfy the filter of the page.
Matching == SelectSeq(ledger, Satisfies)

C12_DeleteOnlyArmed ==
  [][Ran("delete_expense", "ok")' =>
       /\ armed
       /\ confirm_delete = last'.row - 2]_vars

====
